---- MODULE Spec2Model ----
(***************************************************************************)
(* Context-adaptive environment wrappers of CARL: CARLMarioEnv,            *)
(* MetaMarioEnv, MetaGrasp and CARLDmcEnv.  Each wrapper keeps a dict of   *)
(* contexts and a currently selected context, and reconfigures the wrapped *)
(* simulator from it in _update_context.  A run of the model instantiates  *)
(* one wrapper class (the variable wrapper) and then resets it repeatedly. *)
(*                                                                         *)
(* Representation.  A Python dict with caller-chosen keys is a sequence of *)
(* [key, ctx] entries in insertion order with distinct keys; an object's   *)
(* attribute dict is a function from attribute names to values.  Python    *)
(* floats are fixed-point integers scaled by 100 (0.6 is 60, -9.8 is       *)
(* -980).  Results of external generators (generate_level, load_dmc_env,   *)
(* brax.System) are records of the arguments they were called with.        *)
(***************************************************************************)
EXTENDS Integers, Sequences, FiniteSets, TLC

\* ------------------------------------------------------------------ bounds
MaxContexts == 2
NumJoints == 2
NumActuators == 2
RecursionLimit == 4

\* ----------------------------------------------------------------- helpers
KeySet == {0, 5, -2}

Range(s) == {s[i] : i \in 1..Len(s)}

\* all dicts (entry sequences, distinct keys) with 0..MaxContexts entries
Dicts(ctxs) ==
  {d \in UNION {[1..n -> [key : KeySet, ctx : ctxs]] : n \in 0..MaxContexts} :
     \A i, j \in 1..Len(d) : i # j => d[i].key # d[j].key}

\* [k for k in keys if k not in excluded]
RECURSIVE FilterOut(_, _)
FilterOut(keys, excluded) ==
  IF keys = <<>> THEN <<>>
  ELSE IF Head(keys) \in excluded THEN FilterOut(Tail(keys), excluded)
  ELSE <<Head(keys)>> \o FilterOut(Tail(keys), excluded)

Wrappers == {"CARLMarioEnv", "MetaMarioEnv", "MetaGrasp", "CARLDmcEnv"}

VARIABLES
  wrapper,                        \* the class being instantiated
  pc,                             \* "new", "ready", or "failed" (__init__ raised)
  arg_contexts,                   \* the contexts argument given to __init__
  contexts, instance_mode, context_index, context,      \* base class state
  add_gaussian_noise_to_context, whitelist_gaussian_noise,
  env,                            \* self.env
  levels, gen_calls,              \* CARLMarioEnv.levels, calls of generate_level
  base_config, environment,       \* MetaGrasp.base_config, self.env._environment
  raised,                         \* exception raised by the last handler, or "none"
  lookup,                         \* the attribute read in progress on MetaGrasp
  context_mask, dict_observation_space, domain_task     \* CARLDmcEnv

vars == <<wrapper, pc, arg_contexts, contexts, instance_mode, context_index, context,
          add_gaussian_noise_to_context, whitelist_gaussian_noise, env, levels,
          gen_calls, base_config, environment, raised, lookup, context_mask,
          dict_observation_space, domain_task>>

\* ------------------------------------------------- base class (CARLEnv/MetaEnv)
InstanceModes == {"rr", "random"}

\* context_index after _progress_instance: round robin, or any position
ProgressInstance(mode, index, n) ==
  IF mode = "random" THEN 0..(n - 1) ELSE {(index + 1) % n}

\* self.contexts[list(self.contexts.keys())[index]]
ContextAt(ctxs, index) == ctxs[index + 1].ctx

\* a Gaussian perturbation of one context value
Perturb(v) == {v - 50, v, v + 50}

\* the contexts in ctxs with each of the listed features perturbed
RECURSIVE AugmentKeys(_, _)
AugmentKeys(ctxs, keys) ==
  IF keys = <<>> THEN ctxs
  ELSE AugmentKeys(
         UNION {IF Head(keys) \in DOMAIN c
                THEN {[c EXCEPT ![Head(keys)] = v] : v \in Perturb(c[Head(keys)])}
                ELSE {c} : c \in ctxs},
         Tail(keys))

\* what a selected context may become: noise is added to the whitelisted
\* features when add_gaussian_noise_to_context and the whitelist are set
Augmented(ctx, add_noise, whitelist) ==
  IF ~add_noise \/ whitelist = <<>> THEN {ctx} ELSE AugmentKeys({ctx}, whitelist)

\* base __init__: stores its arguments, selects the first context
BaseInit(ctxs, mode, add_noise) ==
  /\ contexts' = ctxs
  /\ instance_mode' = mode
  /\ add_gaussian_noise_to_context' = add_noise
  /\ context_index' = 0
  /\ context' = ContextAt(ctxs, 0)

\* base _progress_instance, run by reset() before _update_context
BaseProgress ==
  \E index \in ProgressInstance(instance_mode, context_index, Len(contexts)) :
    /\ context_index' = index
    /\ context' \in Augmented(ContextAt(contexts, index), add_gaussian_noise_to_context,
                              whitelist_gaussian_noise)

\* ============================================================ CARLMarioEnv
CARL_DEFAULT_CONTEXT ==
  [level_index |-> 0, noise |-> "default_noise", mario_state |-> 0, mario_inertia |-> 89]

CarlMarioContexts ==
  {[level_index |-> li, noise |-> n, mario_state |-> s[1], mario_inertia |-> s[2]] :
     li \in {0, 1}, n \in {"default_noise", "noiseB"}, s \in {<<0, 89>>, <<1, 50>>}}

\* toad_gan.generate_level as called by CARLMarioEnv
CarlGenerateLevel(ctx) ==
  [width |-> "INITIAL_WIDTH", height |-> "INITIAL_HEIGHT",
   level_index |-> ctx.level_index, initial_noise |-> ctx.noise,
   filter_unplayable |-> TRUE]

\* `if not contexts: contexts = {0: DEFAULT_CONTEXT}`
MutCarlMarioDefaultContexts(given) == <<[key |-> 0, ctx |-> CARL_DEFAULT_CONTEXT]>>
CarlMarioDefaultContexts(given) ==
  IF Len(given) = 0 THEN <<[key |-> 0, ctx |-> CARL_DEFAULT_CONTEXT]>> ELSE given

\* the levels list after the `if not self.levels:` block
MutCarlMarioLevels(lvls, ctxs) ==
  lvls \o [i \in 1..Len(ctxs) |-> CarlGenerateLevel(ctxs[i].ctx)]
CarlMarioLevels(lvls, ctxs) ==
  IF Len(lvls) = 0
  THEN [i \in 1..Len(ctxs) |-> CarlGenerateLevel(ctxs[i].ctx)]
  ELSE lvls

\* self.env after the three assignments of _update_context
MutCarlMarioEnv(e, lvls, ctx, index) ==
  [e EXCEPT !.mario_state = ctx.mario_state,
            !.mario_inertia = ctx.mario_inertia,
            !.levels = <<lvls[1]>>]
CarlMarioEnv(e, lvls, ctx, index) ==
  [e EXCEPT !.mario_state = ctx.mario_state,
            !.mario_inertia = ctx.mario_inertia,
            !.levels = <<lvls[index + 1]>>]

\* MarioEnv(levels=[]): the wrapped env before any update
MarioFreshEnv == [levels |-> <<>>, mario_state |-> 0, mario_inertia |-> 0]

\* CARLMarioEnv._update_context
CarlMarioUpdateContext(e, ctxs) ==
  LET lvls == CarlMarioLevels(levels, ctxs)
  IN /\ levels' = lvls
     /\ gen_calls' = gen_calls + (Len(lvls) - Len(levels))
     /\ env' = CarlMarioEnv(e, lvls, context', context_index')

\* CARLMarioEnv.__init__
CarlMarioInit ==
  /\ wrapper = "CARLMarioEnv" /\ pc = "new"
  /\ \E given \in Dicts(CarlMarioContexts), mode \in InstanceModes, add_noise \in BOOLEAN :
       /\ arg_contexts' = given
       /\ BaseInit(CarlMarioDefaultContexts(given), mode, add_noise)
  /\ pc' = "ready"
  /\ CarlMarioUpdateContext(MarioFreshEnv, contexts')
  /\ UNCHANGED <<wrapper, whitelist_gaussian_noise, base_config, environment, raised,
                 lookup, context_mask, dict_observation_space, domain_task>>

\* reset(): _progress_instance, then _update_context
CarlMarioReset ==
  /\ wrapper = "CARLMarioEnv" /\ pc = "ready"
  /\ BaseProgress
  /\ CarlMarioUpdateContext(env, contexts)
  /\ UNCHANGED <<wrapper, pc, arg_contexts, contexts, instance_mode,
                 add_gaussian_noise_to_context, whitelist_gaussian_noise, base_config,
                 environment, raised, lookup, context_mask, dict_observation_space,
                 domain_task>>

\* ============================================================ MetaMarioEnv
INITIAL_WIDTH == 200
INITIAL_LEVEL_INDEX == 0
INITIAL_HEIGHT == 16

\* generate_initial_noise(INITIAL_WIDTH, INITIAL_HEIGHT, INITIAL_LEVEL_INDEX):
\* a noise tensor is an integer tag, 0 for the initial one
InitialNoise == [width |-> INITIAL_WIDTH, height |-> INITIAL_HEIGHT,
                 level_index |-> INITIAL_LEVEL_INDEX, tag |-> 0]

MARIO_DEFAULT_KEYS == <<"level_index", "width", "noise">>
MutMARIO_DEFAULT_CONTEXT ==
  [level_index |-> 14, width |-> INITIAL_WIDTH * 100, noise |-> InitialNoise.tag]
MARIO_DEFAULT_CONTEXT ==
  [level_index |-> INITIAL_LEVEL_INDEX, width |-> INITIAL_WIDTH * 100,
   noise |-> InitialNoise.tag]

\* extended numbers for bounds: -inf, a number, +inf
NegInf == [inf |-> -1, v |-> 0]
PosInf == [inf |-> 1, v |-> 0]
Num(n) == [inf |-> 0, v |-> n]
LE(a, b) == \/ a.inf < b.inf
            \/ a.inf = 0 /\ b.inf = 0 /\ a.v <= b.v

MARIO_CONTEXT_BOUNDS ==
  [level_index |-> [kind |-> "categorical", choices |-> 0..13,
                    lower |-> NegInf, upper |-> PosInf],
   width |-> [kind |-> "int", choices |-> {}, lower |-> Num(16 * 100), upper |-> PosInf],
   noise |-> [kind |-> "float", choices |-> {}, lower |-> Num(-100), upper |-> Num(100)]]

CATEGORICAL_CONTEXT_FEATURES == <<"level_index">>

MetaMarioContexts ==
  [level_index : {0, 13}, width : {16 * 100, INITIAL_WIDTH * 100}, noise : {0}]

\* Python int() of a fixed-point value: truncation towards zero
IntOf(x) == IF x >= 0 THEN x \div 100 ELSE -((-x) \div 100)

MetaMarioDefaultContexts(given) ==
  IF Len(given) = 0 THEN <<[key |-> 0, ctx |-> MARIO_DEFAULT_CONTEXT]>> ELSE given

\* [k for k in DEFAULT_CONTEXT.keys() if k not in CATEGORICAL_CONTEXT_FEATURES]
MutMetaMarioWhitelist == MARIO_DEFAULT_KEYS
MetaMarioWhitelist == FilterOut(MARIO_DEFAULT_KEYS, Range(CATEGORICAL_CONTEXT_FEATURES))

\* MetaMarioEnv._update_context: self.env.levels = [level]
MetaMarioUpdateContext(e) ==
  env' = [e EXCEPT !.levels =
            <<[width |-> IntOf(context'.width), height |-> 16,
               level_index |-> context'.level_index,
               initial_noise |-> context'.noise]>>]

\* MetaMarioEnv.__init__
MetaMarioInit ==
  /\ wrapper = "MetaMarioEnv" /\ pc = "new"
  /\ \E given \in Dicts(MetaMarioContexts), mode \in InstanceModes, add_noise \in BOOLEAN :
       /\ arg_contexts' = given
       /\ BaseInit(MetaMarioDefaultContexts(given), mode, add_noise)
  /\ whitelist_gaussian_noise' = MetaMarioWhitelist
  /\ pc' = "ready"
  /\ MetaMarioUpdateContext(MarioFreshEnv)
  /\ UNCHANGED <<wrapper, levels, gen_calls, base_config, environment, raised, lookup,
                 context_mask, dict_observation_space, domain_task>>

\* reset(): _progress_instance, then _update_context
MetaMarioReset ==
  /\ wrapper = "MetaMarioEnv" /\ pc = "ready"
  /\ BaseProgress
  /\ MetaMarioUpdateContext(env)
  /\ UNCHANGED <<wrapper, pc, arg_contexts, contexts, instance_mode,
                 add_gaussian_noise_to_context, whitelist_gaussian_noise, levels,
                 gen_calls, base_config, environment, raised, lookup, context_mask,
                 dict_observation_space, domain_task>>

NoLookup == [name |-> "", depth |-> 0, status |-> "idle", value |-> 0]

\* =============================================================== MetaGrasp
GRASP_DEFAULT_KEYS ==
  <<"joint_stiffness", "gravity", "friction", "angular_damping", "actuator_strength",
    "joint_angular_damping", "target_radius", "target_distance", "target_height">>
GRASP_DEFAULT_CONTEXT ==
  [joint_stiffness |-> 500000, gravity |-> -980, friction |-> 60,
   angular_damping |-> -5, actuator_strength |-> 30000,
   joint_angular_damping |-> 5000, target_radius |-> 110,
   target_distance |-> 1000, target_height |-> 800]

GRASP_CONTEXT_BOUNDS ==
  [joint_stiffness |-> [lower |-> Num(100), upper |-> PosInf],
   gravity |-> [lower |-> NegInf, upper |-> Num(-10)],
   friction |-> [lower |-> NegInf, upper |-> PosInf],
   angular_damping |-> [lower |-> NegInf, upper |-> PosInf],
   actuator_strength |-> [lower |-> Num(100), upper |-> PosInf],
   joint_angular_damping |-> [lower |-> Num(0), upper |-> Num(36000)],
   target_radius |-> [lower |-> Num(10), upper |-> PosInf],
   target_distance |-> [lower |-> Num(10), upper |-> PosInf],
   target_height |-> [lower |-> Num(10), upper |-> PosInf]]

\* contexts a caller may pass: the default one, the default one with a
\* torso_mass, one that differs in every feature, one without target_height
GraspContexts ==
  {GRASP_DEFAULT_CONTEXT,
   ("torso_mass" :> 1000) @@ GRASP_DEFAULT_CONTEXT,
   [joint_stiffness |-> 400000, gravity |-> -500, friction |-> 90,
    angular_damping |-> -10, actuator_strength |-> 20000,
    joint_angular_damping |-> 4000, target_radius |-> 200,
    target_distance |-> 1200, target_height |-> 900, torso_mass |-> 2000],
   [joint_stiffness |-> 400000, gravity |-> -500, friction |-> 90,
    angular_damping |-> -10, actuator_strength |-> 20000,
    joint_angular_damping |-> 4000, target_radius |-> 200,
    target_distance |-> 1200, torso_mass |-> 2000]}

\* MessageToDict(text_format.Parse(_SYSTEM_CONFIG, brax.Config())): the Grasp
\* system, cut down to the fields the wrapper touches and one it does not at
\* each level
GraspBodyNames == <<"Ground", "Object", "Target", "HandThumbProximal", "HandPalm">>
GraspSystemConfig ==
  [dt |-> 2,
   gravity |-> [z |-> -981],
   friction |-> 77,
   angularDamping |-> -5,
   joints |-> [j \in 1..NumJoints |->
                 [name |-> j, angularDamping |-> 5000, stiffness |-> 500000 + j]],
   actuators |-> [a \in 1..NumActuators |-> [name |-> a, strength |-> 30000 + a]],
   bodies |-> [b \in 1..Len(GraspBodyNames) |-> [name |-> GraspBodyNames[b], mass |-> 100]]]

\* brax.System(json_format.Parse(json.dumps(config), brax.Config())): the
\* system keeps the config and indexes its bodies by name, from 0
System(config) ==
  [config |-> config,
   body_idx |-> [n \in {config.bodies[b].name : b \in 1..Len(config.bodies)} |->
                   (CHOOSE b \in 1..Len(config.bodies) : config.bodies[b].name = n) - 1]]

\* Grasp(): the attributes of the wrapped brax environment
GraspEnvironment ==
  LET sys == System(GraspSystemConfig)
  IN [sys |-> sys,
      object_idx |-> sys.body_idx["Object"],
      target_idx |-> sys.body_idx["Target"],
      hand_idx |-> sys.body_idx["HandThumbProximal"],
      palm_idx |-> sys.body_idx["HandPalm"],
      target_radius |-> 110, target_distance |-> 1000, target_height |-> 800]

MetaGraspDefaultContexts(given) ==
  IF Len(given) = 0 THEN <<[key |-> 0, ctx |-> GRASP_DEFAULT_CONTEXT]>> ELSE given

\* list(DEFAULT_CONTEXT.keys())
MetaGraspWhitelist == GRASP_DEFAULT_KEYS

\* the context keys _update_context reads, in the order it reads them
GraspConfigKeys ==
  <<"gravity", "friction", "angular_damping", "joint_angular_damping", "joint_stiffness",
    "actuator_strength", "torso_mass">>
GraspTargetKeys == <<"target_radius", "target_distance", "target_height">>

\* the assignments to config, lines 68-76
MergeContext(config, ctx) ==
  [config EXCEPT
     !.gravity = [z |-> ctx.gravity],
     !.friction = ctx.friction,
     !.angularDamping = ctx.angular_damping,
     !.joints = [j \in 1..Len(config.joints) |->
                   [config.joints[j] EXCEPT !.angularDamping = ctx.joint_angular_damping,
                                            !.stiffness = ctx.joint_stiffness]],
     !.actuators = [a \in 1..Len(config.actuators) |->
                      [config.actuators[a] EXCEPT !.strength = ctx.actuator_strength]],
     !.bodies = [config.bodies EXCEPT ![1].mass = ctx.torso_mass]]

\* config = copy.deepcopy(self.base_config), then the assignments: the
\* config built and what base_config is afterwards
MutDeepCopyAndMerge(base, ctx) ==
  [config |-> MergeContext(base, ctx), base_config |-> MergeContext(base, ctx)]
DeepCopyAndMerge(base, ctx) ==
  [config |-> MergeContext(base, ctx), base_config |-> base]

\* lines 83-85: the target attributes, set one by one until a key is missing
RECURSIVE SetTargets(_, _, _)
SetTargets(e, ctx, keys) ==
  IF keys = <<>> \/ Head(keys) \notin DOMAIN ctx THEN e
  ELSE SetTargets((Head(keys) :> ctx[Head(keys)]) @@ e, ctx, Tail(keys))

\* MetaGrasp._update_context; a missing key raises KeyError where it is read
MetaGraspUpdateContext(e, base) ==
  IF \E k \in Range(GraspConfigKeys) : k \notin DOMAIN context'
  THEN /\ raised' = "KeyError"
       /\ env' = e
       /\ base_config' = base
  ELSE LET merged == DeepCopyAndMerge(base, context')
           sys == System(merged.config)
           e1 == [sys |-> sys,
                  object_idx |-> sys.body_idx["Object"],
                  target_idx |-> sys.body_idx["Target"],
                  hand_idx |-> sys.body_idx["HandThumbProximal"],
                  palm_idx |-> sys.body_idx["HandPalm"]] @@ e
       IN /\ base_config' = merged.base_config
          /\ env' = SetTargets(e1, context', GraspTargetKeys)
          /\ raised' = IF \E k \in Range(GraspTargetKeys) : k \notin DOMAIN context'
                       THEN "KeyError" ELSE "none"

\* MetaGrasp.__init__; GymWrapper(env) has none of the delegated attributes
MetaGraspInit ==
  /\ wrapper = "MetaGrasp" /\ pc = "new"
  /\ \E given \in Dicts(GraspContexts), mode \in InstanceModes :
       /\ arg_contexts' = given
       /\ BaseInit(MetaGraspDefaultContexts(given), mode, FALSE)
  /\ environment' = GraspEnvironment
  /\ whitelist_gaussian_noise' = MetaGraspWhitelist
  /\ MetaGraspUpdateContext(<<>>, GraspSystemConfig)
  /\ pc' = IF raised' = "none" THEN "ready" ELSE "failed"
  /\ UNCHANGED <<wrapper, levels, gen_calls, lookup, context_mask,
                 dict_observation_space, domain_task>>

\* reset(): _progress_instance, then _update_context
MetaGraspReset ==
  /\ wrapper = "MetaGrasp" /\ pc = "ready" /\ lookup.status # "running"
  /\ BaseProgress
  /\ MetaGraspUpdateContext(env, base_config)
  /\ lookup' = NoLookup
  /\ UNCHANGED <<wrapper, pc, arg_contexts, contexts, instance_mode,
                 add_gaussian_noise_to_context, whitelist_gaussian_noise, levels,
                 gen_calls, environment, context_mask, dict_observation_space,
                 domain_task>>

\* the names __getattr__ delegates to self.env._environment
GraspDelegated ==
  {"sys", "object_idx", "target_idx", "hand_idx", "palm_idx", "target_radius",
   "target_distance", "target_height"}

\* names read on a MetaGrasp object that normal lookup does not find
GraspMissingNames == GraspDelegated \cup {"torso_mass", "render_mode"}

\* an attribute read that normal lookup misses enters __getattr__
MetaGraspGetattrCall ==
  /\ wrapper = "MetaGrasp" /\ pc = "ready" /\ lookup.status # "running"
  /\ \E name \in GraspMissingNames :
       lookup' = [name |-> name, depth |-> 1, status |-> "running", value |-> 0]
  /\ UNCHANGED <<wrapper, pc, arg_contexts, contexts, instance_mode, context_index,
                 context, add_gaussian_noise_to_context, whitelist_gaussian_noise, env,
                 levels, gen_calls, base_config, environment, raised, context_mask,
                 dict_observation_space, domain_task>>

\* one frame of MetaGrasp.__getattr__: a delegated name returns the wrapped
\* environment's attribute; any other name is read on self again, which
\* normal lookup misses again, so __getattr__ is entered one frame deeper,
\* until the interpreter's recursion limit raises RecursionError
GetattrFrame(l, environ) ==
  IF l.name \in GraspDelegated
  THEN [l EXCEPT !.status = "returned", !.value = environ[l.name]]
  ELSE IF l.depth >= RecursionLimit
  THEN [l EXCEPT !.status = "RecursionError"]
  ELSE [l EXCEPT !.depth = @ + 1]

MetaGraspGetattrStep ==
  /\ wrapper = "MetaGrasp" /\ lookup.status = "running"
  /\ lookup' = GetattrFrame(lookup, environment)
  /\ UNCHANGED <<wrapper, pc, arg_contexts, contexts, instance_mode, context_index,
                 context, add_gaussian_noise_to_context, whitelist_gaussian_noise, env,
                 levels, gen_calls, base_config, environment, raised, context_mask,
                 dict_observation_space, domain_task>>

\* ============================================================== CARLDmcEnv
DmcContexts == [gravity : {-981, -500}, wind : {0, 100}]
DmcContextMasks == {<<>>, <<"gravity">>}
\* (self.domain, self.task) of the concrete subclass
DmcDomainTasks == {<<"walker", "walk">>, <<"fish", "swim">>}

\* the env argument of __init__
DmcGivenEnv == [wrapper |-> "none", env |-> <<>>]

\* MujocoToGymWrapper(load_dmc_env(...)), lines 176-177
MutDmcLoadedEnv(dt, ctx, mask) ==
  [wrapper |-> "MujocoToGymWrapper",
   env |-> [domain_name |-> dt[1], task_name |-> dt[2], context |-> ctx,
            context_mask |-> <<>>,
            environment_kwargs |-> [flat_observation |-> TRUE]]]
DmcLoadedEnv(dt, ctx, mask) ==
  [wrapper |-> "MujocoToGymWrapper",
   env |-> [domain_name |-> dt[1], task_name |-> dt[2], context |-> ctx,
            context_mask |-> mask,
            environment_kwargs |-> [flat_observation |-> TRUE]]]

\* what _update_context raises
DmcRaises(dict_obs) == IF dict_obs THEN "NotImplementedError" ELSE "none"

\* CARLDmcEnv._update_context
CarlDmcUpdateContext ==
  /\ raised' = DmcRaises(dict_observation_space)
  /\ env' = IF raised' = "none"
            THEN DmcLoadedEnv(domain_task, context', context_mask)
            ELSE env

\* CARLDmcEnv.__init__
CarlDmcInit ==
  /\ wrapper = "CARLDmcEnv" /\ pc = "new"
  /\ \E given \in Dicts(DmcContexts) \ {<<>>}, mask \in DmcContextMasks,
        dict_obs \in BOOLEAN, dt \in DmcDomainTasks :
       /\ arg_contexts' = given
       /\ context_mask' = mask
       /\ BaseInit(given, "rr", FALSE)
       /\ dict_observation_space' = dict_obs
       /\ domain_task' = dt
  /\ env' = DmcGivenEnv
  /\ pc' = "ready"
  /\ UNCHANGED <<wrapper, whitelist_gaussian_noise, levels, gen_calls, base_config,
                 environment, raised, lookup>>

\* reset(): _progress_instance, then _update_context
CarlDmcReset ==
  /\ wrapper = "CARLDmcEnv" /\ pc = "ready"
  /\ BaseProgress
  /\ CarlDmcUpdateContext
  /\ UNCHANGED <<wrapper, pc, arg_contexts, contexts, instance_mode,
                 add_gaussian_noise_to_context, whitelist_gaussian_noise, levels,
                 gen_calls, base_config, environment, lookup, context_mask,
                 dict_observation_space, domain_task>>

\* ================================================================== system
Init ==
  /\ wrapper \in Wrappers
  /\ pc = "new"
  /\ arg_contexts = <<>>
  /\ contexts = <<>>
  /\ instance_mode = "rr"
  /\ context_index = 0
  /\ context = <<>>
  /\ add_gaussian_noise_to_context = FALSE
  /\ whitelist_gaussian_noise = <<>>
  /\ env = <<>>
  /\ levels = <<>>
  /\ gen_calls = 0
  /\ base_config = <<>>
  /\ environment = <<>>
  /\ raised = "none"
  /\ lookup = NoLookup
  /\ context_mask = <<>>
  /\ dict_observation_space = FALSE
  /\ domain_task = <<>>

Next ==
  \/ CarlMarioInit
  \/ CarlMarioReset
  \/ MetaMarioInit
  \/ MetaMarioReset
  \/ MetaGraspInit
  \/ MetaGraspReset
  \/ MetaGraspGetattrCall
  \/ MetaGraspGetattrStep
  \/ CarlDmcInit
  \/ CarlDmcReset

Spec == Init /\ [][Next]_vars

\* ================================================================== claims

\* C1: after every _update_context of CARLMarioEnv (the constructor's
\* included) env.levels holds exactly one level, the one generated from the
\* selected context's level_index and noise, and env.mario_state and
\* env.mario_inertia are the selected context's.
C1_MarioEnvFollowsContext ==
  (wrapper = "CARLMarioEnv" /\ pc = "ready") =>
    /\ context = contexts[context_index + 1].ctx
    /\ Len(env.levels) = 1
    /\ env.levels[1] = [width |-> "INITIAL_WIDTH", height |-> "INITIAL_HEIGHT",
                        level_index |-> context.level_index,
                        initial_noise |-> context.noise, filter_unplayable |-> TRUE]
    /\ env.mario_state = context.mario_state
    /\ env.mario_inertia = context.mario_inertia

C1_Witness ==
  /\ wrapper = "CARLMarioEnv" /\ pc = "ready"
  /\ Len(contexts) = 2 /\ context_index = 1
  /\ contexts[1].key = 5 /\ contexts[2].key = -2
  /\ contexts[1].ctx.level_index # contexts[2].ctx.level_index
  /\ contexts[1].ctx.noise # contexts[2].ctx.noise
  /\ contexts[1].ctx.mario_state # contexts[2].ctx.mario_state

\* C2: MetaGrasp._update_context leaves base_config as it was, and the
\* config it hands to brax.System is base_config with gravity.z, friction,
\* angularDamping, every joint's angularDamping and stiffness, every
\* actuator's strength and the first body's mass taken from the current
\* context and everything else as in base_config.
C2_GraspConfigIsBasePlusContext ==
  (wrapper = "MetaGrasp" /\ pc # "new") =>
    /\ base_config = GraspSystemConfig
    /\ (pc = "ready" /\ Range(GraspConfigKeys) \subseteq DOMAIN context) =>
         /\ "sys" \in DOMAIN env
         /\ LET c == env["sys"].config
                b == GraspSystemConfig
            IN /\ DOMAIN c = DOMAIN b
               /\ c.dt = b.dt
               /\ c.gravity = [z |-> context.gravity]
               /\ c.friction = context.friction
               /\ c.angularDamping = context.angular_damping
               /\ Len(c.joints) = Len(b.joints)
               /\ \A j \in 1..Len(b.joints) :
                    c.joints[j] = [name |-> b.joints[j].name,
                                   angularDamping |-> context.joint_angular_damping,
                                   stiffness |-> context.joint_stiffness]
               /\ Len(c.actuators) = Len(b.actuators)
               /\ \A a \in 1..Len(b.actuators) :
                    c.actuators[a] = [name |-> b.actuators[a].name,
                                      strength |-> context.actuator_strength]
               /\ Len(c.bodies) = Len(b.bodies)
               /\ c.bodies[1] = [name |-> b.bodies[1].name, mass |-> context.torso_mass]
               /\ \A i \in 2..Len(b.bodies) : c.bodies[i] = b.bodies[i]

C2_Witness ==
  /\ wrapper = "MetaGrasp" /\ pc = "ready" /\ raised = "none"
  /\ Len(contexts) = 2 /\ context_index = 1
  /\ contexts[1].ctx.gravity # contexts[2].ctx.gravity
  /\ contexts[1].ctx.torso_mass # contexts[2].ctx.torso_mass
  /\ env["sys"].config.gravity.z = contexts[2].ctx.gravity

\* a value lies within a [lower, upper] bound
WithinBounds(v, bound) == LE(bound.lower, Num(v)) /\ LE(Num(v), bound.upper)

\* C3: the default contexts are valid against their bounds: DEFAULT_CONTEXT
\* and CONTEXT_BOUNDS have the same keys in meta_grasp and in
\* meta_mario_env, every MetaGrasp default lies within its bound, the Mario
\* default level_index is one of 0..13 and the Mario default width is at
\* least 16; so is the context a wrapper built without contexts starts from.
C3_DefaultsWithinBounds ==
  /\ DOMAIN GRASP_DEFAULT_CONTEXT = DOMAIN GRASP_CONTEXT_BOUNDS
  /\ Range(GRASP_DEFAULT_KEYS) = DOMAIN GRASP_CONTEXT_BOUNDS
  /\ \A k \in DOMAIN GRASP_DEFAULT_CONTEXT :
       WithinBounds(GRASP_DEFAULT_CONTEXT[k], GRASP_CONTEXT_BOUNDS[k])
  /\ DOMAIN MARIO_DEFAULT_CONTEXT = DOMAIN MARIO_CONTEXT_BOUNDS
  /\ Range(MARIO_DEFAULT_KEYS) = DOMAIN MARIO_CONTEXT_BOUNDS
  /\ MARIO_DEFAULT_CONTEXT.level_index \in 0..13
  /\ MARIO_DEFAULT_CONTEXT.level_index \in MARIO_CONTEXT_BOUNDS.level_index.choices
  /\ MARIO_DEFAULT_CONTEXT.width >= 16 * 100
  /\ WithinBounds(MARIO_DEFAULT_CONTEXT.width, MARIO_CONTEXT_BOUNDS.width)
  /\ (wrapper = "MetaMarioEnv" /\ pc # "new" /\ arg_contexts = <<>>) =>
       /\ contexts[1].ctx.level_index \in 0..13
       /\ contexts[1].ctx.width >= 16 * 100
  /\ (wrapper = "MetaGrasp" /\ pc # "new" /\ arg_contexts = <<>>) =>
       \A k \in DOMAIN contexts[1].ctx :
         WithinBounds(contexts[1].ctx[k], GRASP_CONTEXT_BOUNDS[k])

C3_Witness ==
  /\ wrapper = "MetaMarioEnv" /\ pc = "ready" /\ arg_contexts = <<>>
  /\ context.level_index = 0 /\ context.width = 20000
  /\ env.levels[1].width = 200

\* C4: the features eligible for Gaussian noise are fixed at construction
\* and no _update_context changes them: all keys of DEFAULT_CONTEXT for
\* MetaGrasp; the keys of DEFAULT_CONTEXT without the categorical ones for
\* MetaMarioEnv, so never level_index.
C4_WhitelistFixed ==
  /\ (wrapper = "MetaGrasp" /\ pc # "new") =>
       /\ whitelist_gaussian_noise =
            <<"joint_stiffness", "gravity", "friction", "angular_damping",
              "actuator_strength", "joint_angular_damping", "target_radius",
              "target_distance", "target_height">>
       /\ Range(whitelist_gaussian_noise) = DOMAIN GRASP_DEFAULT_CONTEXT
  /\ (wrapper = "MetaMarioEnv" /\ pc # "new") =>
       /\ whitelist_gaussian_noise = <<"width", "noise">>
       /\ "level_index" \notin Range(whitelist_gaussian_noise)
       /\ Range(whitelist_gaussian_noise) =
            DOMAIN MARIO_DEFAULT_CONTEXT \ Range(CATEGORICAL_CONTEXT_FEATURES)

C4_Witness ==
  /\ wrapper = "MetaMarioEnv" /\ pc = "ready"
  /\ add_gaussian_noise_to_context
  /\ context_index = 1
  /\ context.width # contexts[2].ctx.width
  /\ context.level_index = contexts[2].ctx.level_index

\* C5: a wrapper constructed with an empty contexts dict passes
\* {0: DEFAULT_CONTEXT} to the base environment; constructed with a
\* non-empty dict it passes that dict unchanged.
C5_ContextsDefaulted ==
  (pc # "new" /\ wrapper \in {"CARLMarioEnv", "MetaMarioEnv", "MetaGrasp"}) =>
    IF arg_contexts = <<>>
    THEN /\ Len(contexts) = 1
         /\ contexts[1].key = 0
         /\ contexts[1].ctx = CASE wrapper = "CARLMarioEnv" -> CARL_DEFAULT_CONTEXT
                                 [] wrapper = "MetaMarioEnv" -> MARIO_DEFAULT_CONTEXT
                                 [] wrapper = "MetaGrasp" -> GRASP_DEFAULT_CONTEXT
    ELSE contexts = arg_contexts

C5_Witness ==
  /\ wrapper = "CARLMarioEnv" /\ pc = "ready"
  /\ Len(arg_contexts) = 2 /\ arg_contexts[1].key = 5
  /\ contexts = arg_contexts

\* C6: CARLMarioEnv generates its levels once: the first _update_context
\* generates one level per context in contexts.values() order, and ever
\* after levels has one level per context, is unchanged, and generate_level
\* has been called no more than that once per context.
C6_LevelsGeneratedOnce ==
  (wrapper = "CARLMarioEnv" /\ pc = "ready") =>
    /\ Len(levels) = Len(contexts)
    /\ gen_calls = Len(contexts)
    /\ \A i \in 1..Len(contexts) :
         /\ levels[i].level_index = contexts[i].ctx.level_index
         /\ levels[i].initial_noise = contexts[i].ctx.noise

C6_Witness ==
  /\ wrapper = "CARLMarioEnv" /\ pc = "ready"
  /\ Len(contexts) = 2 /\ context_index = 1 /\ gen_calls = 2
  /\ levels[1] # levels[2]

\* C7: every CARLDmcEnv._update_context either replaces env by a newly
\* loaded environment for (domain, task, current context, context_mask)
\* wrapped in MujocoToGymWrapper, when dict_observation_space is false, or
\* raises NotImplementedError and leaves env as it was, when it is true.
C7_DmcRebuildsOrRaises ==
  [][(wrapper = "CARLDmcEnv" /\ pc = "ready") =>
       IF dict_observation_space
       THEN raised' = "NotImplementedError" /\ env' = env
       ELSE /\ raised' = "none"
            /\ env' = [wrapper |-> "MujocoToGymWrapper",
                       env |-> [domain_name |-> domain_task[1],
                                task_name |-> domain_task[2],
                                context |-> context',
                                context_mask |-> context_mask,
                                environment_kwargs |-> [flat_observation |-> TRUE]]]]_vars

C7_Witness ==
  /\ wrapper = "CARLDmcEnv" /\ pc = "ready"
  /\ dict_observation_space /\ raised = "NotImplementedError"
  /\ context_index = 1 /\ env = DmcGivenEnv

\* C8: every context key MetaGrasp._update_context reads is a key of
\* DEFAULT_CONTEXT, so MetaGrasp constructed with no contexts completes its
\* first _update_context without a missing-key error.
C8_DefaultContextConstructs ==
  (wrapper = "MetaGrasp" /\ pc # "new" /\ arg_contexts = <<>>) =>
    /\ pc = "ready"
    /\ raised = "none"
    /\ Range(GraspConfigKeys) \cup Range(GraspTargetKeys) \subseteq DOMAIN context

\* C9: after MetaGrasp._update_context, reading one of the delegated
\* attributes through the MetaGrasp object returns the value that
\* _update_context just set.
C9_GetattrReturnsUpdated ==
  (wrapper = "MetaGrasp" /\ pc = "ready" /\ raised = "none"
     /\ lookup.status = "returned") =>
    lookup.value = env[lookup.name]

\* C10: MetaGrasp.__getattr__ ends for every name: a delegated name in one
\* step, any other missing name with an attribute error, never by running
\* into the recursion limit.
C10_GetattrTerminates ==
  wrapper = "MetaGrasp" =>
    /\ lookup.status \in {"idle", "running", "returned", "AttributeError"}
    /\ lookup.status = "running" => lookup.depth < RecursionLimit

====
